---- MODULE Spec2Model ----
(***************************************************************************)
(* A model of github-filler.py: the class GitHubContributionsFiller (the   *)
(* repository set-up, the day walk of generate_commits, create_commit,     *)
(* the remote set-up and the push) and the command-line entry point main.  *)
(*                                                                         *)
(* Time is counted in seconds from a model epoch whose day 0 is a Monday.  *)
(* A datetime is the number of seconds since that epoch (microseconds are  *)
(* not modelled).  datetime.now() is the variable now, which only moves    *)
(* forward (action Tick).                                                  *)
(*                                                                         *)
(* Three specifications share the actions:                                 *)
(*   SpecGen    generate_commits called on a constructed filler;           *)
(*   SpecSetup  setup_repository called twice on a constructed filler;     *)
(*   Spec       main, from the parsed command line to the end of the run.  *)
(* The random draws, the user's input and the outcome of every git command *)
(* and file operation are nondeterministic choices.                        *)
(***************************************************************************)
EXTENDS Integers, FiniteSets, Sequences, TLC

VARIABLES
    args,                \* the parsed command line (argparse namespace)
    now,                 \* the wall clock, datetime.now()
    ticks,               \* how often the clock has been advanced (bounded)
    pc,                  \* the position of the program
    filler,              \* TRUE once GitHubContributionsFiller is constructed
    start_date,          \* self.start_date
    end_date,            \* self.end_date
    repo,                \* the on-disk repository (directory, .git, config, files)
    current_date,        \* generate_commits: the day being walked
    total_commits,       \* generate_commits: the attempted tally
    successful_commits,  \* generate_commits: the succeeded tally
    daily_commits,       \* generate_commits: the count drawn for the day
    i,                   \* generate_commits: iterations of the for loop done
    commit_time,         \* generate_commits: the timestamp of this iteration
    day_attempted,       \* observer: total_commits increments on this day
    skipped,             \* observer: passes of this day left by 'continue'
    calls,               \* observer: number of create_commit calls
    appends,             \* observer: calls that got past the append to data.txt
    success,             \* the value generate_commits returned
    effects,             \* observer: the mutating operations invoked so far
    answers,             \* observer: what each confirmation prompt was answered
    reported_days,       \* the day count printed by the dry run
    remote_ok,           \* the value setup_remote_repository returned
    push_failed,         \* observer: a plain 'git push' has failed
    interrupted,         \* observer: a KeyboardInterrupt has been raised
    cleaned,             \* observer: cleanup_on_error has run
    exit_status,         \* how the process ended
    run                  \* observer: 1 once setup_repository is run a second time

genVars == <<current_date, total_commits, successful_commits, daily_commits, i,
             commit_time, day_attempted, skipped, calls, appends,
             success>>
mainVars == <<reported_days, remote_ok, push_failed, interrupted, cleaned,
              exit_status, run>>
vars == <<args, now, ticks, pc, filler, start_date, end_date, repo, genVars,
          effects, answers, mainVars>>

(***************************************************************************)
(* Bounds of the model.                                                    *)
(***************************************************************************)
\* The clock is advanced at most this often in one behaviour.
MaxTicks == 1
\* A day is only found active while fewer commits than this were attempted.
MaxAttempts == 3
\* create_commit fails at most this often in one behaviour.
MaxFailures == 1
\* Only the first so many days of a walk are ever found active.
MaxBusyDays == 3

(***************************************************************************)
(* Dates and times.                                                        *)
(***************************************************************************)
SecondsPerHour == 60 * 60
SecondsPerDay == 24 * SecondsPerHour

\* No datetime: a local that holds no value yet.
NoTime == -1

\* The calendar day of a datetime.
DayOf(t) == t \div SecondsPerDay

\* datetime.weekday(): Monday is 0 and Sunday is 6.
Weekday(t) == DayOf(t) % 7

\* datetime.replace(hour=h, minute=m, second=s): same day, new time of day.
Replace(t, h, m, s) == DayOf(t) * SecondsPerDay + h * SecondsPerHour + m * 60 + s

\* A day count rounded up instead of down.
TimedeltaDays_ceiling(d) == (d + SecondsPerDay - 1) \div SecondsPerDay

\* timedelta.days of a difference of d seconds (floored, as Python does).
TimedeltaDays(d) == d \div SecondsPerDay

\* datetime.strptime(s, '%%Y-%%m-%%d') of the text of day d: midnight of that day.
Midnight(d) == d * SecondsPerDay

(***************************************************************************)
(* Random draws and prompt input.                                          *)
(***************************************************************************)
\* random.random(), in hundredths: sample values on both sides of every
\* threshold the program compares it with (0.4, 0.5, 0.7, 0.85).
RandomPercents == {0, 39, 40, 49, 50, 69, 70, 84, 85, 99}

\* random.randint(0, 59) for the minute and the second: the two ends.
MinuteSamples == {0, 59}
SecondSamples == {0, 59}

\* random.randint(9, 18), business hours: the two ends.
BusinessHourSamples == {9, 18}

\* random.choice(list(range(7, 9)) + list(range(19, 23))): the ends of both runs.
OffHourSamples == {7, 8, 19, 22}

\* The hour of a commit, given the draw p that picks business hours or not.
HourChoices(p) == IF p < 70 THEN BusinessHourSamples ELSE OffHourSamples

\* What the user may type at a confirmation prompt.
Responses == {"y", "Y", "yes", "s", "sí", "n", ""}

\* Any response taken for a yes.
Affirmative_always(r) == TRUE

\* str.lower() on the responses.
Lower(r) == IF r = "Y" THEN "y" ELSE r

\* response.lower() in ['y', 'yes', 'sí', 's']
Affirmative(r) == Lower(r) \in {"y", "yes", "sí", "s"}

\* Observer: the responses by which a user says yes, in any case of letters.
YesResponses == {"y", "Y", "yes", "s", "sí"}

\* Observer: what the user answered, "yes" or "no".
YesNo(r) == IF r \in YesResponses THEN "yes" ELSE "no"

\* Prompts that gate the run; "none" until asked.
Prompts == {"main", "large", "remote", "push", "force"}

(***************************************************************************)
(* generate_commits.                                                       *)
(***************************************************************************)
\* A wrong table: the low tier reaching 3.
intensity_map_low3 == [low |-> <<1, 3>>, medium |-> <<1, 4>>, high |-> <<2, 6>>,
                       very_high |-> <<3, 10>>]

intensity_map == [low |-> <<1, 2>>, medium |-> <<1, 4>>, high |-> <<2, 6>>,
                  very_high |-> <<3, 10>>]

\* Above this many days validate_dates asks before continuing.
LargeRangeDays == 400

min_commits == intensity_map[args.intensity][1]
max_commits == intensity_map[args.intensity][2]

\* should_commit_today(date), r1 and r2 being its two random.random() draws.
should_commit_today(date, r1, r2) ==
    IF date > now THEN FALSE
    ELSE IF Weekday(date) = 6 /\ r1 < 40 THEN FALSE
    ELSE IF Weekday(date) < 5 THEN r2 < 85
    ELSE r2 < 50

\* The test of the for loop left out.
CommitInFuture_unchecked(t) == FALSE

\* The test 'commit_time > datetime.now()' of the for loop.
CommitInFuture(t) == t > now

\* A draw that can exceed the tier by one.
DailyRange_wide == min_commits..(max_commits + 1)

\* The range random.randint draws daily_commits from.
DailyRange == min_commits..max_commits

\* generate_commits returns: back in main after the call.
Return(value) ==
    /\ success' = value
    /\ pc' = "after_generate"

\* validate_dates, called first by generate_commits.
ValidateDates ==
    /\ pc = "validate_dates"
    /\ IF start_date >= end_date \/ start_date > now
       THEN /\ Return(FALSE)
            /\ UNCHANGED answers
       ELSE IF TimedeltaDays(end_date - start_date) > LargeRangeDays
       THEN \E r \in Responses :
              /\ answers' = [answers EXCEPT !["large"] = YesNo(r)]
              /\ IF Affirmative(r)
                 THEN pc' = "walk_setup" /\ UNCHANGED success
                 ELSE Return(FALSE)
       ELSE /\ pc' = "walk_setup"
            /\ UNCHANGED <<answers, success>>
    /\ UNCHANGED <<args, now, ticks, filler, start_date, end_date, repo,
                   current_date, total_commits, successful_commits,
                   daily_commits, i, commit_time, day_attempted, skipped,
                   calls, appends, effects, mainVars>>

\* The intensity lookup and the initialisation of the walk.
WalkSetup ==
    /\ pc = "walk_setup"
    /\ IF args.intensity \notin DOMAIN intensity_map
       THEN /\ Return(FALSE)
            /\ UNCHANGED <<current_date, total_commits, successful_commits>>
       ELSE /\ current_date' = start_date
            /\ total_commits' = 0
            /\ successful_commits' = 0
            /\ pc' = "while"
            /\ UNCHANGED success
    /\ UNCHANGED <<args, now, ticks, filler, start_date, end_date, repo,
                   daily_commits, i, commit_time, day_attempted, skipped,
                   calls, appends, effects, answers, mainVars>>

\* One test of the while loop: the walk ends, the day is inactive and the
\* walk moves on, or the day is active and its commit count is drawn.
WalkDay ==
    /\ pc = "while"
    /\ IF current_date <= end_date
       THEN \E r1 \in RandomPercents, r2 \in RandomPercents :
              IF should_commit_today(current_date, r1, r2)
              THEN /\ total_commits < MaxAttempts
                   /\ TimedeltaDays(current_date - start_date) < MaxBusyDays
                   /\ \E n \in DailyRange : daily_commits' = n
                   /\ i' = 0
                   /\ day_attempted' = 0
                   /\ skipped' = 0
                   /\ pc' = "for"
                   /\ UNCHANGED current_date
              ELSE /\ current_date' = current_date + SecondsPerDay
                   /\ UNCHANGED <<daily_commits, i, day_attempted, skipped, pc>>
       ELSE /\ pc' = "walk_done"
            /\ UNCHANGED <<current_date, daily_commits, i, day_attempted,
                           skipped>>
    /\ UNCHANGED <<args, now, ticks, filler, start_date, end_date, repo,
                   total_commits, successful_commits, commit_time, calls,
                   appends,
                   success, effects, answers, mainVars>>

\* A skipped pass counted as attempted.
Skip_counted ==
    /\ skipped' = skipped + 1
    /\ commit_time' = NoTime
    /\ total_commits' = total_commits + 1
    /\ UNCHANGED <<pc, successful_commits>>

\* The 'continue' of a pass whose timestamp is in the future: the pass ends
\* before create_commit and before the tallies.
Skip ==
    /\ skipped' = skipped + 1
    /\ commit_time' = NoTime
    /\ UNCHANGED <<pc, total_commits, successful_commits>>

\* One pass of the for loop up to the call of create_commit: the time of day
\* is drawn, and a timestamp in the future leaves the pass by 'continue'.
ForStep ==
    /\ pc = "for"
    /\ IF i < daily_commits
       THEN \E p \in RandomPercents :
            \E h \in HourChoices(p), m \in MinuteSamples, s \in SecondSamples :
              LET t == Replace(current_date, h, m, s) IN
                /\ i' = i + 1
                /\ IF CommitInFuture(t)
                   THEN Skip
                   ELSE /\ commit_time' = t
                        /\ pc' = "create_commit"
                        /\ UNCHANGED <<skipped, total_commits,
                                       successful_commits>>
                /\ UNCHANGED current_date
       ELSE /\ current_date' = current_date + SecondsPerDay
            /\ pc' = "while"
            /\ UNCHANGED <<i, commit_time, skipped, total_commits,
                           successful_commits>>
    /\ UNCHANGED <<args, now, ticks, filler, start_date, end_date, repo,
                   daily_commits, day_attempted, calls, appends, success,
                   effects,
                   answers, mainVars>>

\* What create_commit can come to: the append to data.txt fails (IOError),
\* 'git add' or 'git commit' fails (CalledProcessError), or the commit is made.
CommitOutcomes ==
    IF total_commits - successful_commits < MaxFailures
    THEN {"io_error", "git_error", "ok"}
    ELSE {"ok"}

\* A create_commit that takes its line back when git fails.
create_commit_rollback(outcome) ==
    CASE outcome = "io_error" -> repo
      [] outcome = "git_error" -> repo
      [] outcome = "ok" -> [repo EXCEPT !.lines = @ + 1,
                                        !.commits = @ + 1,
                                        !.head_lines = repo.lines + 1]

\* create_commit(date): the repository after it, for each outcome.  lines
\* counts the lines appended to data.txt, head_lines those of them that the
\* last commit holds ('git add .' stages the whole file).
create_commit(outcome) ==
    CASE outcome = "io_error" -> repo
      [] outcome = "git_error" -> [repo EXCEPT !.lines = @ + 1]
      [] outcome = "ok" -> [repo EXCEPT !.lines = @ + 1,
                                        !.commits = @ + 1,
                                        !.head_lines = repo.lines + 1]

\* The effects create_commit has on the repository, for each outcome.
CommitEffects(outcome) ==
    CASE outcome = "io_error" -> {}
      [] outcome = "git_error" -> {"append"}
      [] outcome = "ok" -> {"append", "commit"}

\* A failed commit left out of the attempted tally.
Tally_successes_only(ok) ==
    /\ successful_commits' = IF ok THEN successful_commits + 1
                             ELSE successful_commits
    /\ total_commits' = IF ok THEN total_commits + 1 ELSE total_commits

\* The tallies after create_commit returned ok (TRUE or FALSE).
Tally(ok) ==
    /\ successful_commits' = IF ok THEN successful_commits + 1
                             ELSE successful_commits
    /\ total_commits' = total_commits + 1

\* The rest of the pass: create_commit is called and the tallies are kept.
CreateCommit ==
    /\ pc = "create_commit"
    /\ \E outcome \in CommitOutcomes :
         /\ repo' = create_commit(outcome)
         /\ effects' = effects \cup CommitEffects(outcome)
         /\ Tally(outcome = "ok")
         /\ appends' = IF outcome = "io_error" THEN appends ELSE appends + 1
    /\ calls' = calls + 1
    /\ day_attempted' = day_attempted + 1
    /\ commit_time' = NoTime
    /\ pc' = "for"
    /\ UNCHANGED <<args, now, ticks, filler, start_date, end_date,
                   current_date, daily_commits, i, skipped, success, answers,
                   mainVars>>

\* A run without a successful commit reported as a success.
GenerateResult_always == successful_commits >= 0

\* 'return successful_commits > 0'
GenerateResult == successful_commits > 0

\* The summary after the walk and the return value.
WalkDone ==
    /\ pc = "walk_done"
    /\ Return(GenerateResult)
    /\ UNCHANGED <<args, now, ticks, filler, start_date, end_date, repo,
                   current_date, total_commits, successful_commits,
                   daily_commits, i, commit_time, day_attempted, skipped,
                   calls, appends, effects, answers, mainVars>>

(***************************************************************************)
(* The clock.                                                              *)
(***************************************************************************)
\* By how much the clock is seen to move between two steps of the program.
ClockSteps == {12 * SecondsPerHour}

Tick ==
    /\ pc \notin {"exit"}
    /\ ticks < MaxTicks
    /\ \E d \in ClockSteps : now' = now + d
    /\ ticks' = ticks + 1
    /\ UNCHANGED <<args, pc, filler, start_date, end_date, repo, genVars,
                   effects, answers, mainVars>>

(***************************************************************************)
(* generate_commits on its own: a filler constructed over a repository     *)
(* that is already set up.                                                 *)
(***************************************************************************)
\* The identity values of the model: unset, blank, and two proper values.
Unset == ""
Blank == " "

\* A repository that setup_repository has completed on.
ReadyRepo == [dir |-> TRUE, git |-> TRUE, name |-> "Ana", email |-> "ana@x",
              readme |-> TRUE, data |-> TRUE, lines |-> 0, commits |-> 0,
              head_lines |-> 0, remote |-> "none"]

NoAnswers == [p \in Prompts |-> "none"]

\* The day 'today' is: a Monday, so that a walk of three days passes a Saturday,
\* a Sunday and a weekday.
GenTodays == {14}

\* The time of day of 'now' at construction: midnight, 08:00:00, 23:30:00.
NowTimes == {0, 8 * SecondsPerHour, 23 * SecondsPerHour + 30 * 60}

\* The calls of generate_commits that are explored, as <<now, start_date,
\* intensity>>: the two lower tiers and a name that is no tier with every time
\* of day and start date, the two higher tiers from one day before 08:00:00.
GenScenarios ==
    LET today == CHOOSE d \in GenTodays : TRUE IN
      {<<Midnight(today) + t, st, k>> :
          t \in NowTimes, st \in {"m1", "m2", "mid", "p1"},
          k \in {"low", "medium", "extreme"}}
      \cup {<<Midnight(today) + 8 * SecondsPerHour, "m1", k>> :
               k \in {"high", "very_high"}}

\* start_date, n being 'now' at construction: one day before, two days
\* before, midnight of today (what parse_date gives), one day after.
GenStart(n, st) ==
    CASE st = "m1" -> n - SecondsPerDay
      [] st = "m2" -> n - 2 * SecondsPerDay
      [] st = "mid" -> Midnight(DayOf(n))
      [] st = "p1" -> n + SecondsPerDay

InitObservers ==
    /\ current_date = NoTime
    /\ total_commits = 0
    /\ successful_commits = 0
    /\ daily_commits = 0
    /\ i = 0
    /\ commit_time = NoTime
    /\ day_attempted = 0
    /\ skipped = 0
    /\ calls = 0
    /\ appends = 0
    /\ success = FALSE
    /\ effects = {}
    /\ answers = NoAnswers
    /\ reported_days = 0
    /\ remote_ok = FALSE
    /\ push_failed = FALSE
    /\ interrupted = FALSE
    /\ cleaned = FALSE
    /\ exit_status = "running"
    /\ run = 0
    /\ ticks = 0

InitGen ==
    /\ \E sc \in GenScenarios :
         /\ now = sc[1]
         /\ start_date = GenStart(sc[1], sc[2])
         /\ args = [dry_run |-> FALSE, date_ok |-> TRUE,
                    start_date |-> DayOf(start_date),
                    intensity |-> sc[3], repo_url |-> FALSE,
                    local_is_cwd |-> TRUE, author_name |-> Unset,
                    author_email |-> Unset]
    /\ end_date = now
    /\ filler = TRUE
    /\ repo = ReadyRepo
    /\ pc = "validate_dates"
    /\ InitObservers

NextGen ==
    \/ ValidateDates
    \/ WalkSetup
    \/ WalkDay
    \/ ForStep
    \/ CreateCommit
    \/ WalkDone
    \/ Tick

SpecGen == InitGen /\ [][NextGen]_vars

(***************************************************************************)
(* How the process ends.                                                   *)
(***************************************************************************)
\* sys.exit(1): SystemExit is no Exception, so main's handlers let it pass,
\* and cleanup_on_error is not run.
SysExit1 ==
    /\ pc' = "exit"
    /\ exit_status' = "exit1"
    /\ UNCHANGED cleaned

\* main returns: the interpreter exits with status 0.
MainReturns ==
    /\ pc' = "exit"
    /\ exit_status' = "exit0"
    /\ UNCHANGED cleaned

\* An exception main's 'except Exception' catches: cleanup_on_error when the
\* filler exists, then sys.exit(1).
Unexpected ==
    /\ pc' = "exit"
    /\ exit_status' = "exit1"
    /\ cleaned' = filler

(***************************************************************************)
(* setup_repository.                                                       *)
(***************************************************************************)
\* str.strip() on the identity values of the model.
Strip(v) ==
    CASE v = " " -> ""
      [] v = " Bea " -> "Bea"
      [] OTHER -> v

\* What 'git config <key>' reads: unset, blank or a proper value; the
\* test 'returncode == 0 and stdout.strip()'.
Configured(v) == Strip(v) /= Unset

\* What the user may type when asked for a name or an email.
TypedIdentities == {"", " ", " Bea "}

\* 'supplied or input(...).strip() or default'
IdentityToWrite(supplied, typed, default) ==
    IF supplied /= Unset THEN supplied
    ELSE IF Strip(typed) /= "" THEN Strip(typed)
    ELSE default

\* What the steps of setup_repository leave alone.
setupFrame == <<args, now, ticks, filler, start_date, end_date, genVars,
                answers, reported_days, remote_ok, push_failed, interrupted,
                run>>

\* _check_git_installed
CheckGitInstalled ==
    /\ pc = "setup_repository"
    /\ \E installed \in BOOLEAN :
         IF installed
         THEN pc' = "mkdir" /\ UNCHANGED <<exit_status, cleaned>>
         ELSE SysExit1
    /\ UNCHANGED <<repo, effects>>
    /\ UNCHANGED setupFrame

\* The directory is created unless the path is the current directory.
EnsureDirectory ==
    /\ pc = "mkdir"
    /\ IF args.local_is_cwd \/ repo.dir
       THEN /\ pc' = "git_init"
            /\ UNCHANGED <<repo, effects, exit_status, cleaned>>
       ELSE \E permitted \in BOOLEAN :
              IF permitted
              THEN /\ repo' = [repo EXCEPT !.dir = TRUE]
                   /\ effects' = effects \cup {"mkdir"}
                   /\ pc' = "git_init"
                   /\ UNCHANGED <<exit_status, cleaned>>
              ELSE /\ SysExit1
                   /\ UNCHANGED <<repo, effects>>
    /\ UNCHANGED setupFrame

\* 'git init -b main', with the fallback 'git init' and 'git checkout -b main'
\* for an old git; a failing 'git init' raises out of setup_repository.
InitRepository ==
    /\ pc = "git_init"
    /\ IF repo.git
       THEN /\ pc' = "git_config"
            /\ UNCHANGED <<repo, effects, exit_status, cleaned>>
       ELSE \E outcome \in {"init_main", "init_fallback", "init_failed"} :
              /\ effects' = effects \cup {"init"}
              /\ IF outcome = "init_failed"
                 THEN Unexpected /\ UNCHANGED repo
                 ELSE /\ repo' = [repo EXCEPT !.git = TRUE]
                      /\ pc' = "git_config"
                      /\ UNCHANGED <<exit_status, cleaned>>
    /\ UNCHANGED setupFrame

\* _setup_git_config: each key that reads as unset is written; a failing
\* write makes it return False, and setup_repository exits with status 1.
SetupGitConfig ==
    /\ pc = "git_config"
    /\ IF Configured(repo.name) /\ Configured(repo.email)
       THEN /\ pc' = "seed_files"
            /\ UNCHANGED <<repo, effects, exit_status, cleaned>>
       ELSE \E typed_name \in TypedIdentities, typed_email \in TypedIdentities,
               ok_name \in BOOLEAN, ok_email \in BOOLEAN :
              LET name == IdentityToWrite(args.author_name, typed_name, "Bot")
                  email == IdentityToWrite(args.author_email, typed_email,
                                           "bot@x")
                  write_name == ~Configured(repo.name)
                  write_email == ~Configured(repo.email)
                  name_failed == write_name /\ ~ok_name
                  email_failed == ~name_failed /\ write_email /\ ~ok_email
              IN /\ repo' = [repo EXCEPT
                              !.name = IF write_name /\ ok_name
                                       THEN name ELSE @,
                              !.email = IF ~name_failed /\ write_email /\ ok_email
                                        THEN email ELSE @]
                 /\ effects' = effects \cup {"config"}
                 /\ IF name_failed \/ email_failed
                    THEN SysExit1
                    ELSE pc' = "seed_files" /\ UNCHANGED <<exit_status, cleaned>>
    /\ UNCHANGED setupFrame

\* _create_initial_files: README.md, then data.txt, each only when absent; a
\* failing write exits with status 1.
CreateInitialFiles ==
    /\ pc = "seed_files"
    /\ \E ok_readme \in BOOLEAN, ok_data \in BOOLEAN :
         LET readme_failed == ~repo.readme /\ ~ok_readme
             data_failed == ~readme_failed /\ ~repo.data /\ ~ok_data
         IN /\ repo' = [repo EXCEPT
                         !.readme = @ \/ ok_readme,
                         !.data = @ \/ (~readme_failed /\ ok_data)]
            /\ effects' = IF repo.readme /\ (repo.data \/ readme_failed)
                          THEN effects
                          ELSE effects \cup {"seed"}
            /\ IF readme_failed \/ data_failed
               THEN SysExit1
               ELSE pc' = "validate_dates" /\ UNCHANGED <<exit_status, cleaned>>
    /\ UNCHANGED setupFrame

(***************************************************************************)
(* setup_repository on its own, run a second time after it returned.       *)
(***************************************************************************)
\* setup_repository is called again on the same filler.
Rerun ==
    /\ pc = "validate_dates"
    /\ run = 0
    /\ run' = 1
    /\ effects' = {}
    /\ pc' = "setup_repository"
    /\ UNCHANGED <<args, now, ticks, filler, start_date, end_date, repo,
                   genVars, answers, reported_days, remote_ok, push_failed,
                   interrupted, cleaned, exit_status>>

\* The identity values a key or an argument may hold at the start.
Identities == {Unset, Blank, "Ana"}

\* The repositories setup_repository may find: files and .git need the
\* directory (the identity may come from the global configuration).
SetupRepos ==
    {r \in [dir : BOOLEAN, git : BOOLEAN, name : Identities,
            email : Identities, readme : BOOLEAN, data : BOOLEAN,
            lines : {0}, commits : {0}, head_lines : {0}, remote : {"none"}] :
        (r.git \/ r.readme \/ r.data) => r.dir}

InitSetup ==
    /\ now = Midnight(CHOOSE d \in GenTodays : TRUE)
    /\ end_date = now
    /\ start_date = now - SecondsPerDay
    /\ filler = TRUE
    /\ repo \in SetupRepos
    /\ \E cwd \in BOOLEAN, n \in Identities, e \in Identities :
         /\ cwd => repo.dir
         /\ args = [dry_run |-> FALSE, date_ok |-> TRUE,
                    start_date |-> DayOf(start_date),
                    intensity |-> "low", repo_url |-> FALSE,
                    local_is_cwd |-> cwd, author_name |-> n,
                    author_email |-> e]
    /\ pc = "setup_repository"
    /\ InitObservers

NextSetup ==
    \/ CheckGitInstalled
    \/ EnsureDirectory
    \/ InitRepository
    \/ SetupGitConfig
    \/ CreateInitialFiles
    \/ Rerun

SpecSetup == InitSetup /\ [][NextSetup]_vars

(***************************************************************************)
(* main.                                                                   *)
(***************************************************************************)
\* parse_date(args.start_date): a malformed date exits with status 1.
ParseDate ==
    /\ pc = "parse_date"
    /\ IF args.date_ok
       THEN /\ start_date' = Midnight(args.start_date)
            /\ pc' = "banner"
            /\ UNCHANGED <<exit_status, cleaned>>
       ELSE /\ SysExit1
            /\ UNCHANGED start_date
    /\ UNCHANGED <<args, now, ticks, filler, end_date, repo, genVars, effects,
                   answers, reported_days, remote_ok, push_failed, interrupted,
                   run>>

\* The banner, then the dry run: the day count is printed and main returns.
DryRun ==
    /\ pc = "banner"
    /\ args.dry_run
    /\ reported_days' = TimedeltaDays(now - start_date)
    /\ MainReturns
    /\ UNCHANGED <<args, now, ticks, filler, start_date, end_date, repo,
                   genVars, effects, answers, remote_ok, push_failed,
                   interrupted, run>>

\* The banner, then the prompt of the main run, asked outside the try block.
Confirm ==
    /\ pc = "banner"
    /\ ~args.dry_run
    /\ \E r \in Responses :
         /\ answers' = [answers EXCEPT !["main"] = YesNo(r)]
         /\ IF Affirmative(r)
            THEN pc' = "construct" /\ UNCHANGED <<exit_status, cleaned>>
            ELSE MainReturns
    /\ UNCHANGED <<args, now, ticks, filler, start_date, end_date, repo,
                   genVars, effects, reported_days, remote_ok, push_failed,
                   interrupted, run>>

\* GitHubContributionsFiller(...): end_date is 'now' at construction.
Construct ==
    /\ pc = "construct"
    /\ filler' = TRUE
    /\ end_date' = now
    /\ pc' = "setup_repository"
    /\ UNCHANGED <<args, now, ticks, start_date, repo, genVars, effects,
                   answers, mainVars>>

\* After generate_commits: main returns when it reported no success or when
\* no remote URL was given.
AfterGenerate ==
    /\ pc = "after_generate"
    /\ IF success /\ args.repo_url
       THEN pc' = "setup_remote" /\ UNCHANGED <<exit_status, cleaned>>
       ELSE MainReturns
    /\ UNCHANGED <<args, now, ticks, filler, start_date, end_date, repo,
                   genVars, effects, answers, reported_days, remote_ok,
                   push_failed, interrupted, run>>

\* setup_remote_repository(args.repo_url): the remote origin is kept when it
\* has this URL, replaced on a yes when it has another, and added when there
\* is none; a failing git command makes it return False.
SetupRemote ==
    /\ pc = "setup_remote"
    /\ \E r \in Responses, git_ok \in BOOLEAN :
         LET ask == repo.remote = "other"
             write == repo.remote = "none" \/ (ask /\ Affirmative(r))
             ok == repo.remote = "same" \/ (write /\ git_ok)
         IN /\ answers' = IF ask THEN [answers EXCEPT !["remote"] = YesNo(r)]
                          ELSE answers
            /\ effects' = IF write THEN effects \cup {"remote"} ELSE effects
            /\ repo' = IF write /\ git_ok THEN [repo EXCEPT !.remote = "same"]
                       ELSE repo
            /\ remote_ok' = ok
            /\ IF ok
               THEN pc' = "push_prompt" /\ UNCHANGED <<exit_status, cleaned>>
               ELSE MainReturns
    /\ UNCHANGED <<args, now, ticks, filler, start_date, end_date, genVars,
                   reported_days, push_failed, interrupted, run>>

\* The prompt before the push.
PushPrompt ==
    /\ pc = "push_prompt"
    /\ \E r \in Responses :
         /\ answers' = [answers EXCEPT !["push"] = YesNo(r)]
         /\ IF Affirmative(r)
            THEN pc' = "push" /\ UNCHANGED <<exit_status, cleaned>>
            ELSE MainReturns
    /\ UNCHANGED <<args, now, ticks, filler, start_date, end_date, repo,
                   genVars, effects, reported_days, remote_ok, push_failed,
                   interrupted, run>>

\* push_to_github up to the plain push: without a remote it returns False;
\* 'git push -u origin main' succeeds, or fails and leads to the prompt.
Push ==
    /\ pc = "push"
    /\ IF repo.remote = "none"
       THEN /\ MainReturns
            /\ UNCHANGED <<effects, push_failed>>
       ELSE \E git_ok \in BOOLEAN :
              /\ effects' = effects \cup {"push"}
              /\ push_failed' = ~git_ok
              /\ IF git_ok
                 THEN MainReturns
                 ELSE pc' = "force_prompt" /\ UNCHANGED <<exit_status, cleaned>>
    /\ UNCHANGED <<args, now, ticks, filler, start_date, end_date, repo,
                   genVars, answers, reported_days, remote_ok, interrupted,
                   run>>

\* The rest of push_to_github: the prompt, and on a yes 'git push --force',
\* whose failure is caught by push_to_github itself.
ForcePush ==
    /\ pc = "force_prompt"
    /\ \E r \in Responses :
         /\ answers' = [answers EXCEPT !["force"] = YesNo(r)]
         /\ effects' = IF Affirmative(r) THEN effects \cup {"force_push"}
                       ELSE effects
    /\ MainReturns
    /\ UNCHANGED <<args, now, ticks, filler, start_date, end_date, repo,
                   genVars, reported_days, remote_ok, push_failed, interrupted,
                   run>>

\* The positions inside main's try block.
TryPcs == {"construct", "setup_repository", "mkdir", "git_init", "git_config",
           "seed_files", "validate_dates", "walk_setup", "while", "for",
           "create_commit", "walk_done", "after_generate", "setup_remote",
           "push_prompt", "push", "force_prompt"}

\* KeyboardInterrupt, at any position after the arguments are parsed: inside
\* the try block main's handler prints a line, runs cleanup_on_error when the
\* filler exists, and main returns; outside it nothing catches it.  The
\* exception unwinds generate_commits, whose locals are gone with its frame.
Interrupt ==
    /\ pc /= "exit"
    /\ interrupted' = TRUE
    /\ pc' = "exit"
    /\ IF pc \in TryPcs
       THEN exit_status' = "exit0" /\ cleaned' = filler
       ELSE exit_status' = "traceback" /\ UNCHANGED cleaned
    /\ current_date' = NoTime
    /\ total_commits' = 0
    /\ successful_commits' = 0
    /\ daily_commits' = 0
    /\ i' = 0
    /\ commit_time' = NoTime
    /\ day_attempted' = 0
    /\ skipped' = 0
    /\ calls' = 0
    /\ appends' = 0
    /\ UNCHANGED <<args, now, ticks, filler, start_date, end_date, repo,
                   success, effects, answers, reported_days, remote_ok,
                   push_failed, run>>

\* A repository directory that does not exist yet.
FreshRepo == [dir |-> FALSE, git |-> FALSE, name |-> Unset, email |-> Unset,
              readme |-> FALSE, data |-> FALSE, lines |-> 0, commits |-> 0,
              head_lines |-> 0, remote |-> "none"]

\* 'today' of the runs of main: a Monday more than 401 days after the epoch.
MainToday == 7 * 60

\* The command line: --dry-run, whether --start-date parses, its day,
\* --intensity, whether --repo-url is given, whether --local-path is the
\* current directory, --author-name, --author-email.
Args(dry, ok, day, k, url, cwd, n, e) ==
    [dry_run |-> dry, date_ok |-> ok, start_date |-> day, intensity |-> k,
     repo_url |-> url, local_is_cwd |-> cwd, author_name |-> n,
     author_email |-> e]

\* The runs of main that are explored, as <<time of day, args, repository>>.
MainScenarios ==
    \* complete runs over two days, with and without a remote
    {<<8 * SecondsPerHour,
       Args(FALSE, TRUE, MainToday - 1, "low", url, TRUE, Unset, Unset),
       [ReadyRepo EXCEPT !.remote = rem]>> :
         url \in BOOLEAN, rem \in {"none", "same", "other"}}
    \* a run that creates the repository
    \cup {<<8 * SecondsPerHour,
            Args(FALSE, TRUE, MainToday - 1, k, FALSE, FALSE, "Ana", Unset),
            FreshRepo>> : k \in {"low", "medium"}}
    \* dry runs, and malformed dates
    \cup {<<t, Args(TRUE, ok, MainToday + d, "medium", FALSE, TRUE, Unset, Unset),
            ReadyRepo>> :
            t \in NowTimes, ok \in BOOLEAN, d \in {-401, -1, 0, 1}}
    \* start dates that validate_dates refuses, at every time of day
    \cup {<<t, Args(FALSE, ok, MainToday + d, "low", FALSE, TRUE, Unset, Unset),
            ReadyRepo>> :
            t \in NowTimes, ok \in BOOLEAN, d \in {0, 1}}
    \* a range of more than 400 days
    \cup {<<8 * SecondsPerHour,
            Args(FALSE, TRUE, MainToday - 401, "low", FALSE, TRUE, Unset, Unset),
            ReadyRepo>>}

InitMain ==
    /\ \E sc \in MainScenarios :
         /\ now = Midnight(MainToday) + sc[1]
         /\ args = sc[2]
         /\ repo = sc[3]
    /\ filler = FALSE
    /\ start_date = NoTime
    /\ end_date = NoTime
    /\ pc = "parse_date"
    /\ InitObservers

NextMain ==
    \/ ParseDate
    \/ DryRun
    \/ Confirm
    \/ Construct
    \/ CheckGitInstalled
    \/ EnsureDirectory
    \/ InitRepository
    \/ SetupGitConfig
    \/ CreateInitialFiles
    \/ ValidateDates
    \/ WalkSetup
    \/ WalkDay
    \/ ForStep
    \/ CreateCommit
    \/ WalkDone
    \/ AfterGenerate
    \/ SetupRemote
    \/ PushPrompt
    \/ Push
    \/ ForcePush
    \/ Interrupt
    \/ Tick

Spec == InitMain /\ [][NextMain]_vars

(***************************************************************************)
(* Properties of generate_commits (checked under SpecGen).                 *)
(***************************************************************************)
\* The tiers as the specification states them.
TierBounds == [low |-> <<1, 2>>, medium |-> <<1, 4>>, high |-> <<2, 6>>,
               very_high |-> <<3, 10>>]

ValidTier == args.intensity \in DOMAIN TierBounds

\* C1: every timestamp generate_commits passes to create_commit is not later
\* than the clock at the moment of the call: no commit is requested with a
\* future timestamp.
C1_NoFutureCommit ==
    pc = "create_commit" => commit_time /= NoTime /\ commit_time <= now

\* C1 witness: a commit of today is passed to create_commit on a day on which
\* another pass was skipped for lying in the future.
C1_Witness ==
    /\ pc = "create_commit"
    /\ DayOf(commit_time) = DayOf(now)
    /\ skipped > 0

\* C2 as stated: with start == end - 1 day and intensity low, at most 2
\* commits are attempted.
C2_AtMostTwo ==
    (start_date = end_date - SecondsPerDay /\ args.intensity = "low")
        => total_commits <= 2

\* C2 amended: with start == end - 1 day and intensity low the walk covers two
\* days, the start day and the end day, so at most 4 commits are attempted,
\* and the attempted tally is the number of create_commit calls.
C2_AtMostFour ==
    (start_date = end_date - SecondsPerDay /\ args.intensity = "low")
        => total_commits <= 4 /\ total_commits = calls

\* C2 witness: such a run returns with 4 commits attempted.
C2_Witness ==
    /\ start_date = end_date - SecondsPerDay
    /\ args.intensity = "low"
    /\ pc = "after_generate"
    /\ total_commits = 4

\* A step that leaves a pass of the for loop by 'continue'.
SkipStep == pc = "for" /\ i' = i + 1 /\ pc' = "for"

\* C3 as stated: a commit whose timestamp is in the future is not passed to
\* create_commit but is still counted in the attempted tally.
C3_SkipCounted ==
    [][SkipStep => (calls' = calls /\ total_commits' = total_commits + 1)]_vars

\* C3 amended: a commit whose timestamp is in the future is not passed to
\* create_commit and is not counted: neither tally changes, and the
\* repository is left alone.
C3_SkipNotCounted ==
    [][SkipStep => (/\ calls' = calls
                    /\ total_commits' = total_commits
                    /\ successful_commits' = successful_commits
                    /\ repo' = repo)]_vars

\* C3 witness: a pass has been skipped, with the day's loop still running.
C3_Witness == pc = "for" /\ skipped > 0 /\ i < daily_commits

\* The for loop of an active day has ended.
DayDone == pc = "for" /\ i = daily_commits

\* C4 as stated: for every active day the number of commits attempted for
\* that day lies between the tier's min and max.
C4_AttemptedInTier ==
    (ValidTier /\ DayDone)
        => /\ TierBounds[args.intensity][1] <= day_attempted
           /\ day_attempted <= TierBounds[args.intensity][2]

\* C4 amended: for every active day the number of commits drawn for that day
\* lies between the tier's min and max; the number attempted is that number
\* less the passes skipped for a future timestamp, so it never exceeds the
\* tier's max and reaches the tier's min when nothing was skipped.
C4_DrawnInTier ==
    (ValidTier /\ pc \in {"for", "create_commit"})
        => /\ TierBounds[args.intensity][1] <= daily_commits
           /\ daily_commits <= TierBounds[args.intensity][2]
           /\ day_attempted <= TierBounds[args.intensity][2]
           /\ DayDone => day_attempted = daily_commits - skipped

\* C4 witness: an active day of the highest tier ends with fewer attempts
\* than the tier's min, the rest having been skipped.
C4_Witness ==
    /\ args.intensity = "very_high"
    /\ DayDone
    /\ skipped > 0
    /\ day_attempted < TierBounds["very_high"][1]

\* A step in which create_commit is called and fails (the program moves on
\* from the call, uninterrupted, and no commit was made).
FailedCommitStep ==
    /\ pc = "create_commit"
    /\ pc' /= pc
    /\ ~interrupted'
    /\ repo'.commits = repo.commits

C6_SecondRunMutationFree == run = 1 => effects = {}

\* The first part of C6, which holds: a key is written only when it reads as
\* unset, a seed file only when absent, and .git is made only when missing.
C6_WritesOnlyWhenMissing ==
    [][/\ repo'.name /= repo.name => ~Configured(repo.name)
       /\ repo'.email /= repo.email => ~Configured(repo.email)
       /\ repo'.readme /= repo.readme => ~repo.readme
       /\ repo'.data /= repo.data => ~repo.data
       /\ repo'.git /= repo.git => ~repo.git
       /\ (/\ repo.git /\ repo.readme /\ repo.data
           /\ Configured(repo.name) /\ Configured(repo.email))
             => (repo' = repo /\ effects' \subseteq effects)]_vars

\* The second run is free of mutations when no blank identity is supplied.
C6_SecondRunMutationFreeUnlessBlank ==
    (run = 1 /\ Strip(args.author_name) = args.author_name
             /\ Strip(args.author_email) = args.author_email)
        => effects = {}

(***************************************************************************)
(* Properties of main (checked under Spec).                                *)
(***************************************************************************)
\* main has returned without having been interrupted.
Returned == pc = "exit" /\ exit_status = "exit0" /\ ~interrupted

\* C5: a dry run with a valid start date invokes no mutating operation and
\* asks no confirmation, at any point, and the day count it reports is
\* (now - start) in whole days.
C5_DryRunFrame ==
    (args.dry_run /\ args.date_ok)
        => /\ effects = {}
           /\ answers = NoAnswers
           /\ repo.lines = 0 /\ repo.commits = 0
           /\ Returned =>
                /\ reported_days * SecondsPerDay <= now - start_date
                /\ now - start_date < (reported_days + 1) * SecondsPerDay

\* C5 witness: a dry run has reported a range of 401 days and a part of a day.
C5_Witness ==
    /\ args.dry_run
    /\ Returned
    /\ reported_days = 401
    /\ now - start_date > 401 * SecondsPerDay

\* C8: a KeyboardInterrupt at any point of a run of main that is no dry run,
\* the confirmation prompts included, is caught by main's handler, runs
\* cleanup_on_error and ends the program without a stack trace.
C8_InterruptCaught ==
    (interrupted /\ ~args.dry_run)
        => exit_status = "exit0" /\ cleaned

\* The range end_date - start_date is more than 400 days.
LargeRange ==
    filler /\ end_date - start_date >= 401 * SecondsPerDay

\* C9: no mutation of the repository happens before the prompt of the main
\* run is answered yes; over a range of more than 400 days no commit is
\* created unless the prompt of validate_dates is answered yes too; a no to
\* either prompt ends the run without a commit.
C9_PromptsGate ==
    /\ (effects /= {} \/ repo.commits > 0 \/ repo.lines > 0)
          => answers["main"] = "yes"
    /\ (LargeRange /\ (pc \in {"walk_setup", "while", "for", "create_commit",
                               "walk_done"} \/ "commit" \in effects))
          => answers["large"] = "yes"
    /\ answers["main"] = "no"
          => (pc = "exit" /\ effects = {} /\ repo.commits = 0)
    /\ answers["large"] = "no"
          => /\ pc \in {"after_generate", "exit"}
             /\ ~success
             /\ "commit" \notin effects
             /\ repo.commits = 0

\* C9 witness: over a range of more than 400 days a commit has been created
\* after both prompts were answered yes.
C9_Witness ==
    /\ LargeRange
    /\ answers["main"] = "yes"
    /\ answers["large"] = "yes"
    /\ "commit" \in effects

\* C10: 'git push' is invoked only after generate_commits reported a
\* successful commit, setup_remote_repository returned success and the push
\* prompt was answered yes; 'git push --force' only after a plain push of the
\* same run failed and the force prompt was answered yes.
C10_PushOrder ==
    /\ "push" \in effects
          => /\ success
             /\ repo.commits > 0
             /\ remote_ok
             /\ answers["push"] = "yes"
    /\ "force_push" \in effects
          => /\ "push" \in effects
             /\ push_failed
             /\ answers["force"] = "yes"
    /\ answers["force"] /= "none" => push_failed

\* C10 witness: a forced push has been invoked.
C10_Witness ==
    /\ "force_push" \in effects
    /\ pc = "exit"

(***************************************************************************)
(* Exit codes of main (checked under Spec).                                *)
(***************************************************************************)
\* A step that ends the process.
ExitStep == pc /= "exit" /\ pc' = "exit"

\* A step that ends the process on a fatal error: the run stops, without an
\* interrupt, at the parsing of the start date or inside setup_repository
\* (git missing, directory not creatable, 'git init' failing, identity not
\* configurable, seed file not creatable).
FatalExitStep ==
    /\ ExitStep
    /\ ~interrupted'
    /\ pc \in {"parse_date", "setup_repository", "mkdir", "git_init",
               "git_config", "seed_files"}

\* C11: the process exits with code 1 exactly on the fatal errors (a fatal
\* error raised inside main's try block included: the generic handler does
\* not swallow it) and with code 0 on every other path, the dry run, the
\* declined prompts, the failed validation, zero successful commits, a
\* failed or declined push and the user's interrupt among them.
C11_ExitCodes ==
    [][ExitStep => exit_status' = IF FatalExitStep THEN "exit1" ELSE "exit0"]_vars

\* What holds of C11: the same for every end of the process but an interrupt
\* that arrives outside main's try block.
C11_ExitCodesWhenCaught ==
    [][(ExitStep /\ ~(interrupted' /\ pc \notin TryPcs))
          => exit_status' = IF FatalExitStep THEN "exit1" ELSE "exit0"]_vars

(***************************************************************************)
(* The data log under create_commit (checked under SpecGen).               *)
(***************************************************************************)
\* C12: create_commit does not take its line back when git fails: the lines
\* appended to the log are as many as the calls that got past the append,
\* not as many as the successful commits, and a successful commit holds
\* every line appended so far, those left by failed commits included.
C12_NoRollback ==
    /\ [](/\ repo.lines = appends
          /\ repo.commits = successful_commits
          /\ repo.commits <= repo.lines
          /\ repo.head_lines <= repo.lines)
    /\ [][repo'.commits = repo.commits + 1
            => (repo'.lines = repo.lines + 1
                /\ repo'.head_lines = repo'.lines)]_vars

\* C12 witness: a commit failed after its line was appended, and the next
\* successful commit holds that line too.
C12_Witness ==
    /\ repo.commits = 1
    /\ repo.lines = 2
    /\ repo.head_lines = 2
    /\ total_commits = 2

====
